---- MODULE Spec2Model ----
(***************************************************************************)
(* Curl2Py: the UI controller (the App component) and the two outbound     *)
(* calls of its service layer, in both variants present in the repository: *)
(*   "basic"    : src/unnamed/part_001 with src/services/geminiService.ts  *)
(*   "extended" : src/unnamed/part_000 with src/unnamed/part_002           *)
(*                                                                         *)
(* Text (the cURL command, a field name, the custom-field box) is a        *)
(* sequence of atoms: an atom is one whitespace character or a run of      *)
(* non-whitespace characters.  A JavaScript Set is the sequence of its     *)
(* members in insertion order.  null is the empty sequence Null and a      *)
(* non-null value v is Some(v).  Messages and the three strings of a       *)
(* ConversionResponse are TLA+ strings.                                    *)
(*                                                                         *)
(* The remote model answers a call in one of three ways: the call rejects  *)
(* (with or without a message), the response text does not parse as JSON,  *)
(* or it parses to a value of the shape the request's responseSchema       *)
(* requires (any string of that value may be empty, and mockResponse is    *)
(* any string).  One analysis text of the extended variant parses to a     *)
(* value that lacks the required responseFields.                           *)
(***************************************************************************)
EXTENDS Integers, Sequences, FiniteSets, TLC

\* ------------------------------------------------------------------ bounds

\* Outbound calls awaiting their answer at one time.
MaxPending == 2

\* The same, where the handlers are called directly (SpecHandlers).
MaxPendingDirect == 1

\* Length of the selected-field list passed to convertCurlToPython where it
\* is called on its own (SpecPrompt).
MaxSelected == 3

\* Length of availableFields up to which a custom field can still be added.
MaxFields == 4

\* ------------------------------------------------------------- AppStatus

IDLE == "IDLE"
ANALYZING == "ANALYZING"
AWAITING_SELECTION == "AWAITING_SELECTION"
GENERATING == "GENERATING"
SUCCESS == "SUCCESS"
ERROR == "ERROR"

AppStatus == {IDLE, ANALYZING, AWAITING_SELECTION, GENERATING, SUCCESS, ERROR}

Variants == {"basic", "extended"}

\* ------------------------------------------------------------ JS values

Null == <<>>

Some(v) == <<v>>

Min(a, b) == IF a < b THEN a ELSE b

Whitespace == {" ", "\t", "\n"}

RECURSIVE trimStart(_)
trimStart(s) ==
    IF s = <<>> THEN s
    ELSE IF Head(s) \in Whitespace THEN trimStart(Tail(s))
    ELSE s

RECURSIVE trimEnd(_)
trimEnd(s) ==
    IF s = <<>> THEN s
    ELSE IF s[Len(s)] \in Whitespace THEN trimEnd(SubSeq(s, 1, Len(s) - 1))
    ELSE s

\* String.prototype.trim
trim(s) == trimEnd(trimStart(s))

\* Truthiness of a string: the empty string is falsy.
Truthy(s) == Len(s) > 0

\* Array.prototype.slice(from, to), zero-based, end exclusive.
slice(arr, from, to) == SubSeq(arr, from + 1, Min(to, Len(arr)))

\* Set.prototype.has / add / delete on an insertion-ordered set.
SetHas(S, x) == \E i \in 1..Len(S) : S[i] = x

SetAdd(S, x) == IF SetHas(S, x) THEN S ELSE Append(S, x)

SetDelete(S, x) == SelectSeq(S, LAMBDA y : y # x)

\* new Set(iterable): members in order of first occurrence.
RECURSIVE NewSetFrom(_, _)
NewSetFrom(acc, arr) ==
    IF arr = <<>> THEN acc ELSE NewSetFrom(SetAdd(acc, Head(arr)), Tail(arr))

NewSet(arr) == NewSetFrom(<<>>, arr)

\* Array.from(set)
ArrayFrom(S) == S

\* A sequence without its i-th element.
Without(seq, i) == SubSeq(seq, 1, i - 1) \o SubSeq(seq, i + 1, Len(seq))

\* The members of an array or of a Set, as a mathematical set.
Members(S) == {S[i] : i \in 1..Len(S)}

\* The value undefined where a list of field names is expected, kept apart
\* from every list of names of the model.
Undefined == << <<"undefined">> >>

\* The names of a list of field names; undefined has none.
Names(list) == IF list = Undefined THEN {} ELSE Members(list)

\* The message of the TypeError of `undefined.slice(0, 3)`.
SliceOfUndefined == "Cannot read properties of undefined (reading 'slice')"

\* ------------------------------------------------------- program constants

AnalyzeFallback == "Failed to analyze cURL. Please check the command."

GenerateFallback == "Failed to generate code."

ExampleBasic ==
    <<"curl", " ", "-X", " ", "GET", " ",
      "\"https://api.github.com/users/octocat\"", " ",
      "-H", " ", "\"accept:", " ", "application/json\"">>

ExampleExtended ==
    <<"curl", " ", "-X", " ", "GET", " ",
      "\"https://api.github.com/user\"", " ",
      "-H", " ", "\"Authorization:", " ", "Bearer", " ", "YOUR_EXPIRING_TOKEN\"", " ",
      "-H", " ", "\"X-GitHub-Api-Version:", " ", "2022-11-28\"">>

ExampleText(v) == IF v = "basic" THEN ExampleBasic ELSE ExampleExtended

\* ------------------------------------------------------------ user input

\* What the user types into the cURL box (which starts empty): whitespace
\* only, a non-blank command with whitespace around it.
UserTexts ==
    { <<" ">>,
      <<" ", "curl", " ", "https://api.test/items", "\n">> }

\* What the user types into the custom-field box (basic variant): a name
\* with whitespace around it, new to some field lists and already in others.
CustomTexts == { <<" ", "id", " ">> }

\* ---------------------------------------------------------- the remote model

\* A response text that is JSON without the responseFields the schema of the
\* extended analyzer requires.
MissingFieldsText == "{\"volatileInputs\": []}"

\* Response texts of the analyze call, by variant.
AnalysisTexts(v) ==
    IF v = "basic"
    THEN { "{\"fields\": []}",
           "{\"fields\": [\"id\", \"login\"]}",
           "{\"fields\": [\"id\", \"login\", \"user.name\", \"meta.count\"]}" }
    ELSE { "{\"responseFields\": [], \"volatileInputs\": []}",
           "{\"responseFields\": [\"id\", \"login\"], \"volatileInputs\": [{\"name\": \"Authorization\", \"currentValue\": \"Bearer YOUR_EXPIRING_TOKEN\", \"type\": \"header\", \"description\": \"expires\"}]}",
           "{\"responseFields\": [\"id\", \"login\", \"user.name\", \"meta.count\"], \"volatileInputs\": []}",
           MissingFieldsText }

\* Response texts of the generate call.
ConversionTexts ==
    { "{\"pythonCode\": \"import requests\", \"explanation\": \"Filters the response.\", \"mockResponse\": \"{\\\"id\\\": 1}\"}",
      "{\"pythonCode\": \"\", \"explanation\": \"\", \"mockResponse\": \"{}\"}",
      "{\"pythonCode\": \"import requests\", \"explanation\": \"Filters the response.\", \"mockResponse\": \"id: 1\"}" }

\* A response text cut short: not JSON.
TruncatedText == "{\""

AuthorizationInput ==
    [name |-> "Authorization", currentValue |-> "Bearer YOUR_EXPIRING_TOKEN",
     type |-> "header", description |-> "expires"]

\* JSON.parse over the texts of the model: the value of each well-formed
\* text; every other text is not JSON.
JSONValue(text) ==
    CASE text = "{\"fields\": []}" ->
            Some([fields |-> <<>>])
      [] text = "{\"fields\": [\"id\", \"login\"]}" ->
            Some([fields |-> << <<"id">>, <<"login">> >>])
      [] text = "{\"fields\": [\"id\", \"login\", \"user.name\", \"meta.count\"]}" ->
            Some([fields |-> << <<"id">>, <<"login">>, <<"user.name">>, <<"meta.count">> >>])
      [] text = "{\"responseFields\": [], \"volatileInputs\": []}" ->
            Some([responseFields |-> <<>>, volatileInputs |-> <<>>])
      [] text = "{\"responseFields\": [\"id\", \"login\"], \"volatileInputs\": [{\"name\": \"Authorization\", \"currentValue\": \"Bearer YOUR_EXPIRING_TOKEN\", \"type\": \"header\", \"description\": \"expires\"}]}" ->
            Some([responseFields |-> << <<"id">>, <<"login">> >>,
                  volatileInputs |-> <<AuthorizationInput>>])
      [] text = "{\"responseFields\": [\"id\", \"login\", \"user.name\", \"meta.count\"], \"volatileInputs\": []}" ->
            Some([responseFields |-> << <<"id">>, <<"login">>, <<"user.name">>, <<"meta.count">> >>,
                  volatileInputs |-> <<>>])
      [] text = "{\"pythonCode\": \"import requests\", \"explanation\": \"Filters the response.\", \"mockResponse\": \"{\\\"id\\\": 1}\"}" ->
            Some([pythonCode |-> "import requests",
                  explanation |-> "Filters the response.",
                  mockResponse |-> "{\"id\": 1}"])
      [] text = "{\"pythonCode\": \"\", \"explanation\": \"\", \"mockResponse\": \"{}\"}" ->
            Some([pythonCode |-> "", explanation |-> "", mockResponse |-> "{}"])
      [] text = "{\"pythonCode\": \"import requests\", \"explanation\": \"Filters the response.\", \"mockResponse\": \"id: 1\"}" ->
            Some([pythonCode |-> "import requests",
                  explanation |-> "Filters the response.",
                  mockResponse |-> "id: 1"])
      [] text = MissingFieldsText ->
            Some([volatileInputs |-> <<>>])
      [] text = "{\"id\": 1}" -> Some([id |-> 1])
      [] text = "{}" -> Some(<<>>)
      [] OTHER -> Null

\* The outcome of a call or of an evaluation: a value, or an exception with
\* its message ("" also stands for an exception that carries no message).
Returned(v) == [threw |-> FALSE, message |-> "", value |-> Some(v)]

Threw(m) == [threw |-> TRUE, message |-> m, value |-> Null]

JSONparse(text) ==
    IF JSONValue(text) = Null
    THEN Threw("Unexpected end of JSON input")
    ELSE Returned(JSONValue(text)[1])

\* What the remote model does with a request: rejects it, with or without a
\* message, or answers with a text.
RejectMessages == {"", "API key not valid"}

Responses(kind, v) ==
    [rejected : {TRUE}, message : RejectMessages, text : {""}]
    \cup [rejected : {FALSE}, message : {""},
          text : {TruncatedText}
                 \cup (IF kind = "analyze" THEN AnalysisTexts(v) ELSE ConversionTexts)]

\* ai.models.generateContent, given what the remote does.
generateContent(response) ==
    IF response.rejected THEN Threw(response.message) ELSE Returned(response)

\* -------------------------------------------------------------- services

\* analyzeCurlSchema after its await: what the promise settles to, given what
\* the remote did.  An array is truthy, so `result.fields || []` of the
\* basic service is result.fields.
analyzeCurlSchema(v, response) ==
    LET sent == generateContent(response)
        parsed == JSONparse(response.text)
    IN  IF sent.threw THEN sent
        ELSE IF parsed.threw THEN parsed
        ELSE IF v = "basic" THEN Returned(parsed.value[1].fields)
        ELSE Returned(parsed.value[1])

\* Array.prototype.join over texts: the separator between adjacent members.
RECURSIVE joinFrom(_, _, _)
joinFrom(acc, arr, sep) ==
    IF arr = <<>> THEN acc
    ELSE joinFrom(acc \o sep \o Head(arr), Tail(arr), sep)

join(arr, sep) ==
    IF arr = <<>> THEN <<>> ELSE joinFrom(Head(arr), Tail(arr), sep)

\* The "all fields" sentinel of each service, as a text.
Sentinel(v) ==
    IF v = "basic"
    THEN <<"All", " ", "fields", " ", "(no", " ", "filtering)">>
    ELSE <<"All", " ", "fields">>

\* Mutant of fieldsDescription: the names are joined without a separator.
fieldsDescription_noSeparator(v, fields) ==
    IF Len(fields) > 0 THEN join(fields, <<>>) ELSE Sentinel(v)

fieldsDescription(v, fields) ==
    IF Len(fields) > 0 THEN join(fields, <<",", " ">>) ELSE Sentinel(v)

\* JSON.stringify of a volatile-input list.
JSONstringify(inputs) ==
    IF inputs = <<>> THEN "[]"
    ELSE "[{\"name\":\"Authorization\",\"currentValue\":\"Bearer YOUR_EXPIRING_TOKEN\",\"type\":\"header\",\"description\":\"expires\"}]"

\* The fixed parts of the prompt template, each as one piece of text (the
\* code fence around the command written <fence> ... </fence>): up to the
\* cURL command, from there to the field description, and after it.
PromptHead(v) ==
    IF v = "basic"
    THEN <<"Convert the following cURL command into a clean, professional Python script using the requests library. cURL Command: <fence>">>
    ELSE <<"Convert this cURL to a production-ready Python script using requests. cURL: <fence>">>

PromptMiddle(v) ==
    IF v = "basic"
    THEN <<"</fence> The user explicitly wants to extract ONLY these specific fields from the JSON response: [ ">>
    ELSE <<"</fence> Selected Response Extraction: [ ">>

PromptTail(v, inputs) ==
    IF v = "basic"
    THEN <<" ] Requirements: 1. ... 2. ... 3. ... 4. ...">>
    ELSE <<" ] CRITICAL INSTRUCTION: ... 2. Put all identified volatile inputs (",
           JSONstringify(inputs),
           ") into this configuration section. 3. ... 4. ... 5. ... 6. ...">>

\* convertCurlToPython up to its await: the prompt it sends as `contents`.
convertCurlToPythonPrompt(v, curlCommand, fields, inputs) ==
    PromptHead(v) \o curlCommand \o PromptMiddle(v)
        \o fieldsDescription(v, fields) \o PromptTail(v, inputs)

\* convertCurlToPython after its await.
convertCurlToPython(response) ==
    LET sent == generateContent(response)
        parsed == JSONparse(response.text)
    IN  IF sent.threw THEN sent
        ELSE IF parsed.threw THEN parsed
        ELSE Returned(parsed.value[1])

\* ------------------------------------------------------------------ state

VARIABLES
    variant,          \* which of the two App components is mounted
    curlInput,        \* useState('')
    status,           \* useState(AppStatus.IDLE)
    availableFields,  \* useState([])
    volatileInputs,   \* useState([]), extended variant only
    selectedFields,   \* useState(new Set())
    result,           \* useState(null)
    error,            \* useState(null)
    customField,      \* useState('')
    pending,          \* the outbound calls awaiting the remote's answer, oldest first
    uncaught,         \* an exception escaped while rendering
    ev,               \* the handler or continuation that ran last
    recording,        \* the history below is being kept (fixed from the first state on)
    lastAnalyzed,     \* history: the cURL text of the analyze call that completed successfully last
    analyzedSinceReset  \* history: an analyze call has completed successfully since the start or the last reset

vars ==
    <<variant, curlInput, status, availableFields, volatileInputs,
      selectedFields, result, error, customField, pending,
      uncaught, ev, recording, lastAnalyzed, analyzedSinceReset>>

\* The history variables: no handler reads them.
hist == <<recording, lastAnalyzed, analyzedSinceReset>>

\* The next value of a history variable: kept up to date while recording.
Recorded(new, old) == IF recording THEN new ELSE old

\* The record of the step that ran last.
Event(op, call, response) == [op |-> op, call |-> call, response |-> response]

\* An outbound call: the arguments the service function was invoked with.
Call(kind, curlCommand, fields, volatile) ==
    [kind |-> kind, curlCommand |-> curlCommand,
     selectedFields |-> fields, volatileInputs |-> volatile]

\* A handler suspended at its await.  Its continuation reads nothing of the
\* request, so only which handler it is is kept, and, while recording, the
\* cURL text of an analyze call (for the history).
Awaiting(call) ==
    IF recording /\ call.kind = "analyze"
    THEN [kind |-> call.kind, curlCommand |-> call.curlCommand]
    ELSE [kind |-> call.kind]

InitState(rec) ==
    /\ variant \in Variants
    /\ curlInput = <<>>
    /\ status = IDLE
    /\ availableFields = <<>>
    /\ volatileInputs = <<>>
    /\ selectedFields = <<>>
    /\ result = Null
    /\ error = Null
    /\ customField = <<>>
    /\ pending = <<>>
    /\ uncaught = FALSE
    /\ ev = Event("mount", Null, Null)
    /\ recording = rec
    /\ lastAnalyzed = Null
    /\ analyzedSinceReset = FALSE

\* The component as mounted.
Init == InitState(FALSE)

\* The same, with the history kept.
InitRecording == InitState(TRUE)

\* --------------------------------------------------------------- rendering

\* The success panel evaluates JSON.parse(result.mockResponse) while
\* rendering, outside any try/catch.
RenderThrows(st, res) ==
    /\ res # Null
    /\ st = SUCCESS
    /\ JSONparse(res[1].mockResponse).threw

\* The selection panel is part of the render of status st.
PanelRendered(v, st) ==
    IF v = "basic"
    THEN st = AWAITING_SELECTION \/ st = GENERATING \/ st = SUCCESS
    ELSE st = AWAITING_SELECTION \/ st = SUCCESS

\* The selection panel evaluates availableFields.map(...) while rendering.
ChipsThrow(v, st, fields) == PanelRendered(v, st) /\ fields = Undefined

\* The "Try an example" control.
ExampleVisible ==
    IF variant = "basic" THEN status = IDLE ELSE TRUE

\* The "Start Over" control (rendered by the basic variant only).
StartOverVisible ==
    variant = "basic" /\ status # IDLE /\ status # ANALYZING

\* The cURL textarea accepts input.
TextareaEnabled ==
    IF variant = "basic" THEN status = IDLE \/ status = ERROR ELSE TRUE

\* The analyze button is rendered and not disabled.
AnalyzeEnabled ==
    /\ IF variant = "basic"
       THEN status = IDLE \/ status = ERROR \/ status = ANALYZING
       ELSE TRUE
    /\ ~(status = ANALYZING \/ ~Truthy(curlInput))

\* The field-selection panel (chips, custom-field form, generate button).
SelectionPanelVisible == PanelRendered(variant, status)

GenerateEnabled == SelectionPanelVisible /\ ~(status = GENERATING)

\* The custom-field form (basic variant): its Add button is disabled on a
\* blank box, and a form whose submit button is disabled is not submitted.
CustomFormVisible == variant = "basic" /\ SelectionPanelVisible

AddEnabled == CustomFormVisible /\ Truthy(trim(customField))

\* The file-name label 'filtered_request.py' (basic) and the copy button.
CopyButtonVisible == result # Null

\* The code, the mock JSON and the explanation.
ResultPanelVisible == result # Null /\ status = SUCCESS

\* ---------------------------------------------------------------- handlers

\* Every state update is followed by a render of the new state.
Rerender ==
    uncaught' = (\/ RenderThrows(status', result')
                 \/ ChipsThrow(variant', status', availableFields'))

\* Mutant of IsBlank: the text is tested without trimming it.
IsBlank_untrimmed(text) == ~Truthy(text)

\* `!curlInput.trim()`
IsBlank(text) == ~Truthy(trim(text))

\* Mutant of AutoSelected: one field too few.
AutoSelected_firstTwo(fields) == NewSet(slice(fields, 0, 2))

\* `new Set(fields.slice(0, 3))`
AutoSelected(fields) == NewSet(slice(fields, 0, 3))

\* `err.message || fallback`
ErrorText(message, fallback) == IF Truthy(message) THEN message ELSE fallback

\* Mutant of Toggled: the field is added whether or not it was selected.
Toggled_alwaysAdds(selected, field) == SetAdd(selected, field)

\* The Set that toggleField stores.
Toggled(selected, field) ==
    IF SetHas(selected, field)
    THEN SetDelete(selected, field)
    ELSE SetAdd(selected, field)

\* handleAnalyze up to its await.
handleAnalyze ==
    IF IsBlank(curlInput)
    THEN /\ ev' = Event("handleAnalyze", Null, Null)
         /\ UNCHANGED <<variant, curlInput, status, availableFields,
                        volatileInputs, selectedFields, result, error,
                        customField, pending>>
         /\ Rerender
         /\ UNCHANGED hist
    ELSE /\ status' = ANALYZING
         /\ error' = Null
         /\ result' = Null
         /\ pending' = Append(pending, Awaiting(Call("analyze", curlInput, <<>>, <<>>)))
         /\ ev' = Event("handleAnalyze", Some(Call("analyze", curlInput, <<>>, <<>>)), Null)
         /\ UNCHANGED <<variant, curlInput, availableFields, volatileInputs,
                        selectedFields, customField>>
         /\ Rerender
         /\ UNCHANGED hist

\* Mutant of analyzeSettled: a call that failed is issued again.
analyzeSettled_retries(i, response) ==
    LET out == analyzeCurlSchema(variant, response)
        missing == variant = "extended"
                   /\ "responseFields" \notin DOMAIN out.value[1]
        fields == IF variant = "basic"
                  THEN out.value[1]
                  ELSE out.value[1].responseFields
    IN  /\ IF out.threw
           THEN /\ error' = Some(ErrorText(out.message, AnalyzeFallback))
                /\ status' = ERROR
                /\ UNCHANGED <<availableFields, volatileInputs, selectedFields>>
           ELSE IF missing
           THEN \* two setters have run when `analysis.responseFields.slice`
                \* throws into the catch block
                /\ availableFields' = Undefined
                /\ volatileInputs' = out.value[1].volatileInputs
                /\ error' = Some(ErrorText(SliceOfUndefined, AnalyzeFallback))
                /\ status' = ERROR
                /\ UNCHANGED selectedFields
           ELSE /\ availableFields' = fields
                /\ volatileInputs' = IF variant = "basic"
                                     THEN volatileInputs
                                     ELSE out.value[1].volatileInputs
                /\ selectedFields' = AutoSelected(fields)
                /\ status' = AWAITING_SELECTION
                /\ UNCHANGED error
        /\ IF out.threw \/ missing
           THEN UNCHANGED hist
           ELSE /\ lastAnalyzed' =
                      IF recording THEN Some(pending[i].curlCommand) ELSE lastAnalyzed
                /\ analyzedSinceReset' = Recorded(TRUE, analyzedSinceReset)
                /\ UNCHANGED recording
        /\ pending' = IF out.threw THEN pending ELSE Without(pending, i)
        /\ ev' = Event("analyzeSettled", Null, Some(response))
        /\ UNCHANGED <<variant, curlInput, result, customField>>
        /\ Rerender

\* handleAnalyze from its await on: call pending[i] settles with the remote's response.
analyzeSettled(i, response) ==
    LET out == analyzeCurlSchema(variant, response)
        missing == variant = "extended"
                   /\ "responseFields" \notin DOMAIN out.value[1]
        fields == IF variant = "basic"
                  THEN out.value[1]
                  ELSE out.value[1].responseFields
    IN  /\ IF out.threw
           THEN /\ error' = Some(ErrorText(out.message, AnalyzeFallback))
                /\ status' = ERROR
                /\ UNCHANGED <<availableFields, volatileInputs, selectedFields>>
           ELSE IF missing
           THEN \* two setters have run when `analysis.responseFields.slice`
                \* throws into the catch block
                /\ availableFields' = Undefined
                /\ volatileInputs' = out.value[1].volatileInputs
                /\ error' = Some(ErrorText(SliceOfUndefined, AnalyzeFallback))
                /\ status' = ERROR
                /\ UNCHANGED selectedFields
           ELSE /\ availableFields' = fields
                /\ volatileInputs' = IF variant = "basic"
                                     THEN volatileInputs
                                     ELSE out.value[1].volatileInputs
                /\ selectedFields' = AutoSelected(fields)
                /\ status' = AWAITING_SELECTION
                /\ UNCHANGED error
        /\ IF out.threw \/ missing
           THEN UNCHANGED hist
           ELSE /\ lastAnalyzed' =
                      IF recording THEN Some(pending[i].curlCommand) ELSE lastAnalyzed
                /\ analyzedSinceReset' = Recorded(TRUE, analyzedSinceReset)
                /\ UNCHANGED recording
        /\ pending' = Without(pending, i)
        /\ ev' = Event("analyzeSettled", Null, Some(response))
        /\ UNCHANGED <<variant, curlInput, result, customField>>
        /\ Rerender

\* handleGenerate up to its await.
handleGenerate ==
    /\ status' = GENERATING
    /\ error' = Null
    /\ pending' = Append(pending, Awaiting(
          Call("generate", curlInput, ArrayFrom(selectedFields), volatileInputs)))
    /\ ev' = Event("handleGenerate", Some(
          Call("generate", curlInput, ArrayFrom(selectedFields), volatileInputs)), Null)
    /\ UNCHANGED <<variant, curlInput, availableFields, volatileInputs,
                   selectedFields, result, customField>>
    /\ Rerender
    /\ UNCHANGED hist

\* Mutant of generateSettled: on success the result is not stored.
generateSettled_resultNotStored(i, response) ==
    LET out == convertCurlToPython(response)
    IN  /\ IF out.threw
           THEN /\ error' = Some(ErrorText(out.message, GenerateFallback))
                /\ status' = ERROR
           ELSE /\ status' = SUCCESS
                /\ UNCHANGED error
        /\ UNCHANGED result
        /\ pending' = Without(pending, i)
        /\ ev' = Event("generateSettled", Null, Some(response))
        /\ UNCHANGED <<variant, curlInput, availableFields, volatileInputs,
                       selectedFields, customField>>
        /\ Rerender
        /\ UNCHANGED hist

\* handleGenerate from its await on.
generateSettled(i, response) ==
    LET out == convertCurlToPython(response)
    IN  /\ IF out.threw
           THEN /\ error' = Some(ErrorText(out.message, GenerateFallback))
                /\ status' = ERROR
                /\ UNCHANGED result
           ELSE /\ result' = Some(out.value[1])
                /\ status' = SUCCESS
                /\ UNCHANGED error
        /\ pending' = Without(pending, i)
        /\ ev' = Event("generateSettled", Null, Some(response))
        /\ UNCHANGED <<variant, curlInput, availableFields, volatileInputs,
                       selectedFields, customField>>
        /\ Rerender
        /\ UNCHANGED hist

\* Mutant of handleReset: the stored result is kept.
handleReset_keepsResult ==
    /\ status' = IDLE
    /\ availableFields' = <<>>
    /\ volatileInputs' = <<>>
    /\ selectedFields' = <<>>
    /\ error' = Null
    /\ ev' = Event("handleReset", Null, Null)
    /\ UNCHANGED <<variant, curlInput, result, customField, pending>>
    /\ Rerender
    /\ analyzedSinceReset' = Recorded(FALSE, analyzedSinceReset)
    /\ UNCHANGED <<recording, lastAnalyzed>>

handleReset ==
    /\ status' = IDLE
    /\ availableFields' = <<>>
    /\ volatileInputs' = <<>>
    /\ selectedFields' = <<>>
    /\ result' = Null
    /\ error' = Null
    /\ ev' = Event("handleReset", Null, Null)
    /\ UNCHANGED <<variant, curlInput, customField, pending>>
    /\ Rerender
    /\ analyzedSinceReset' = Recorded(FALSE, analyzedSinceReset)
    /\ UNCHANGED <<recording, lastAnalyzed>>

\* Mutant of toggleField: the toggle also falls back to awaiting-selection.
toggleField_resetsStatus(field) ==
    /\ selectedFields' = Toggled(selectedFields, field)
    /\ status' = AWAITING_SELECTION
    /\ ev' = Event("toggleField", Null, Null)
    /\ UNCHANGED <<variant, curlInput, availableFields, volatileInputs,
                   result, error, customField, pending>>
    /\ Rerender
    /\ UNCHANGED hist

toggleField(field) ==
    /\ selectedFields' = Toggled(selectedFields, field)
    /\ ev' = Event("toggleField", Null, Null)
    /\ UNCHANGED <<variant, curlInput, status, availableFields, volatileInputs,
                   result, error, customField, pending>>
    /\ Rerender
    /\ UNCHANGED hist

\* addCustomField (basic variant): its toggleField call reads the same
\* render's selectedFields.
addCustomField ==
    IF Truthy(trim(customField))
    THEN /\ availableFields' = Append(availableFields, trim(customField))
         /\ selectedFields' = Toggled(selectedFields, trim(customField))
         /\ customField' = <<>>
         /\ ev' = Event("addCustomField", Null, Null)
         /\ UNCHANGED <<variant, curlInput, status, volatileInputs, result,
                        error, pending>>
         /\ Rerender
         /\ UNCHANGED hist
    ELSE /\ ev' = Event("addCustomField", Null, Null)
         /\ UNCHANGED <<variant, curlInput, status, availableFields,
                        volatileInputs, selectedFields, result, error,
                        customField, pending>>
         /\ Rerender
         /\ UNCHANGED hist

handleExample ==
    /\ curlInput' = ExampleText(variant)
    /\ status' = IDLE
    /\ error' = Null
    /\ ev' = Event("handleExample", Null, Null)
    /\ UNCHANGED <<variant, availableFields, volatileInputs, selectedFields,
                   result, customField, pending>>
    /\ Rerender
    /\ UNCHANGED hist

\* onChange of the cURL textarea.
setCurlInput(text) ==
    /\ curlInput' = text
    /\ ev' = Event("setCurlInput", Null, Null)
    /\ UNCHANGED <<variant, status, availableFields, volatileInputs,
                   selectedFields, result, error, customField, pending>>
    /\ Rerender
    /\ UNCHANGED hist

\* onChange of the custom-field box.
setCustomField(text) ==
    /\ customField' = text
    /\ ev' = Event("setCustomField", Null, Null)
    /\ UNCHANGED <<variant, curlInput, status, availableFields, volatileInputs,
                   selectedFields, result, error, pending>>
    /\ Rerender
    /\ UNCHANGED hist

\* ------------------------------------------------- what the rendered UI allows

\* A render that threw has unmounted the component: no control is left and
\* the state updates of a late continuation are dropped.
Mounted == ~uncaught

EditCurl ==
    /\ Mounted /\ TextareaEnabled
    /\ \E text \in UserTexts : setCurlInput(text)

ClickAnalyze ==
    /\ Mounted /\ AnalyzeEnabled
    /\ IsBlank(curlInput) \/ Len(pending) < MaxPending
    /\ handleAnalyze

AnalyzeSettles ==
    /\ Mounted
    /\ \E i \in 1..Len(pending) :
          /\ pending[i].kind = "analyze"
          /\ \E response \in Responses("analyze", variant) :
                analyzeSettled(i, response)

ClickGenerate ==
    /\ Mounted /\ GenerateEnabled
    /\ Len(pending) < MaxPending
    /\ handleGenerate

GenerateSettles ==
    /\ Mounted
    /\ \E i \in 1..Len(pending) :
          /\ pending[i].kind = "generate"
          /\ \E response \in Responses("generate", variant) :
                generateSettled(i, response)

ClickStartOver ==
    /\ Mounted /\ StartOverVisible
    /\ handleReset

ClickChip ==
    /\ Mounted /\ SelectionPanelVisible
    /\ \E field \in Names(availableFields) : toggleField(field)

EditCustomField ==
    /\ Mounted /\ CustomFormVisible
    /\ \E text \in CustomTexts : setCustomField(text)

SubmitCustomField ==
    /\ Mounted /\ AddEnabled
    /\ Len(availableFields) < MaxFields
    /\ addCustomField

ClickExample ==
    /\ Mounted /\ ExampleVisible
    /\ handleExample

Next ==
    \/ EditCurl
    \/ ClickAnalyze
    \/ AnalyzeSettles
    \/ ClickGenerate
    \/ GenerateSettles
    \/ ClickStartOver
    \/ ClickChip
    \/ EditCustomField
    \/ SubmitCustomField
    \/ ClickExample

Spec == Init /\ [][Next]_vars

\* ------------------------------------------- the handlers, called directly

\* Each handler of the mounted component invoked in any state, whether or
\* not a rendered control leads to it there (handleReset has no control in
\* the extended variant; addCustomField exists in the basic variant only).
CallSetCurlInput ==
    /\ Mounted
    /\ \E text \in UserTexts \cup {<<>>} : setCurlInput(text)

CallHandleAnalyze ==
    /\ Mounted
    /\ IsBlank(curlInput) \/ Len(pending) < MaxPendingDirect
    /\ handleAnalyze

CallHandleGenerate ==
    /\ Mounted
    /\ Len(pending) < MaxPendingDirect
    /\ handleGenerate

CallHandleReset ==
    /\ Mounted
    /\ handleReset

CallToggleField ==
    /\ Mounted
    /\ \E field \in Names(availableFields) : toggleField(field)

CallSetCustomField ==
    /\ Mounted /\ variant = "basic"
    /\ \E text \in CustomTexts \cup {<<" ">>} : setCustomField(text)

CallAddCustomField ==
    /\ Mounted /\ variant = "basic"
    /\ Len(availableFields) < MaxFields
    /\ addCustomField

CallHandleExample ==
    /\ Mounted
    /\ handleExample

NextHandlers ==
    \/ CallSetCurlInput
    \/ CallHandleAnalyze
    \/ AnalyzeSettles
    \/ CallHandleGenerate
    \/ GenerateSettles
    \/ CallHandleReset
    \/ CallToggleField
    \/ CallSetCustomField
    \/ CallAddCustomField
    \/ CallHandleExample

SpecHandlers == Init /\ [][NextHandlers]_vars

\* ------------------------------------------------- the UI, with its history

SpecRecording == InitRecording /\ [][Next]_vars

\* ------------------------------------------- the code generator on its own

\* Field names passed to the generator: two the analyzer predicts and one
\* that spells the service's sentinel (any text can be added as a custom
\* field, and the analyzer's names are the remote's).
PromptNames(v) == { <<"id">>, <<"user.name">>, Sentinel(v) }

\* The lists of at most n names.
RECURSIVE ListsUpTo(_, _)
ListsUpTo(names, n) ==
    IF n = 0 THEN {<<>>}
    ELSE ListsUpTo(names, n - 1)
         \cup {Append(l, x) : l \in {m \in ListsUpTo(names, n - 1) : Len(m) = n - 1},
                              x \in names}

\* convertCurlToPython called with any arguments: the request goes out with
\* the prompt built from them.
CallConvertCurlToPython ==
    \E curlCommand \in UserTexts \cup {ExampleText(variant)},
       fields \in ListsUpTo(PromptNames(variant), MaxSelected),
       inputs \in IF variant = "basic" THEN {<<>>} ELSE {<<>>, <<AuthorizationInput>>} :
        /\ pending' = <<[kind |-> "generate",
                         prompt |-> convertCurlToPythonPrompt(
                                        variant, curlCommand, fields, inputs)]>>
        /\ ev' = Event("convertCurlToPython",
                       Some(Call("generate", curlCommand, fields, inputs)), Null)
        /\ UNCHANGED <<variant, curlInput, status, availableFields,
                       volatileInputs, selectedFields, result, error,
                       customField, uncaught>>
        /\ UNCHANGED hist

NextPrompt == CallConvertCurlToPython

SpecPrompt == Init /\ [][NextPrompt]_vars

\* ----------------------------------------------------------------- claims

\* The remote's response of the settlement that ran last.
SettledResponse == ev.response[1]

\* The response makes the exchange fail: the call rejected, its text is not
\* JSON, or it is JSON without the field list.
Fails(response) ==
    \/ response.rejected
    \/ JSONValue(response.text) = Null
    \/ response.text = MissingFieldsText

\* The field list an analyze response carries.
FieldsOf(v, response) ==
    IF v = "basic"
    THEN JSONValue(response.text)[1].fields
    ELSE JSONValue(response.text)[1].responseFields

\* The first three members of a list (all of them when it has fewer).
FirstThree(fields) == {fields[i] : i \in 1..Min(3, Len(fields))}

\* C1: analyze on a non-blank text from idle or error sets status to
\* analyzing in the same step; the settlement of an analyze call leaves
\* status either awaiting-selection, with the known fields equal to the list
\* of the analyzer's result and exactly its first three names selected, or
\* error, with a non-empty message; it never leaves status analyzing.
C1_AnalyzeStep ==
    /\ (ev'.op = "handleAnalyze" /\ trim(curlInput) # <<>>
            /\ status \in {IDLE, ERROR})
          => (status' = ANALYZING /\ Len(pending') = Len(pending) + 1)
    /\ ev'.op = "analyzeSettled"
          => IF Fails(ev'.response[1])
             THEN /\ status' = ERROR
                  /\ error' # Null
                  /\ error'[1] # ""
             ELSE /\ status' = AWAITING_SELECTION
                  /\ availableFields' = FieldsOf(variant, ev'.response[1])
                  /\ Members(selectedFields') = FirstThree(availableFields')

C1_Analyze == [][C1_AnalyzeStep]_vars

\* C1 witness: an analyze call has just settled with a four-field list, of
\* which three are selected.
C1_Witness ==
    /\ ev.op = "analyzeSettled"
    /\ status = AWAITING_SELECTION
    /\ Len(availableFields) = 4
    /\ Len(selectedFields) = 3

\* The three strings of a stored result.
ResultStrings(res) ==
    {res[1].pythonCode, res[1].explanation, res[1].mockResponse}

\* C2 as stated: generate sets status to generating in the same step, and
\* the settlement of a generate call leaves status either success, with a
\* stored result of three non-empty strings, or error.
C2_GenerateStep_Original ==
    /\ ev'.op = "handleGenerate" => status' = GENERATING
    /\ ev'.op = "generateSettled"
          => \/ /\ status' = SUCCESS
                /\ result' # Null
                /\ "" \notin ResultStrings(result')
             \/ status' = ERROR

C2_Original == [][C2_GenerateStep_Original]_vars

\* C2 amended: generate sets status to generating in the same step, whatever
\* the selection; the settlement of a generate call leaves status either
\* success, with the stored result being the value parsed from the response
\* (the three fields pythonCode, explanation and mockResponse, any of which
\* may be the empty string), or error; it never leaves status generating.
C2_GenerateStep ==
    /\ ev'.op = "handleGenerate"
          => (status' = GENERATING /\ Len(pending') = Len(pending) + 1)
    /\ ev'.op = "generateSettled"
          => IF Fails(ev'.response[1])
             THEN status' = ERROR /\ result' = result
             ELSE /\ status' = SUCCESS
                  /\ result' = JSONValue(ev'.response[1].text)
                  /\ DOMAIN result'[1]
                        = {"pythonCode", "explanation", "mockResponse"}

C2_Generate == [][C2_GenerateStep]_vars

\* C2 witness: a generate call issued with an empty selection has settled
\* with a result whose code is the empty string.
C2_Witness ==
    /\ ev.op = "generateSettled"
    /\ status = SUCCESS
    /\ result # Null
    /\ result[1].pythonCode = ""
    /\ selectedFields = <<>>

\* C3 as stated: at most one outbound call is outstanding in every state
\* the rendered controls can lead to.
C3_AtMostOneOutstanding == Len(pending) <= 1

\* C4 as stated: status starts at idle and changes only along the edges of
\* the flow: to analyzing only by an analyze action, to generating only by a
\* generate action, to awaiting-selection only from analyzing, to success
\* only from generating, to error only from analyzing or generating, and to
\* idle only by reset or load-example.
C4_StatusEdge ==
    status' # status =>
        /\ status' = ANALYZING => ev'.op = "handleAnalyze"
        /\ status' = GENERATING => ev'.op = "handleGenerate"
        /\ status' = AWAITING_SELECTION => status = ANALYZING
        /\ status' = SUCCESS => status = GENERATING
        /\ status' = ERROR => status \in {ANALYZING, GENERATING}
        /\ status' = IDLE => ev'.op \in {"handleReset", "handleExample"}

C4_StatusFlow == [][C4_StatusEdge]_vars

\* C5: a reset leaves status idle, the known fields, the volatile inputs,
\* the selection, the stored result and the error value empty, and the cURL
\* text as it was.
C5_ResetStep ==
    ev'.op = "handleReset" =>
        /\ status' = IDLE
        /\ availableFields' = <<>>
        /\ volatileInputs' = <<>>
        /\ selectedFields' = <<>>
        /\ result' = Null
        /\ error' = Null
        /\ curlInput' = curlInput

C5_Reset == [][C5_ResetStep]_vars

\* C5 witness: the extended variant's reset has run on a non-empty cURL
\* text while a call was still outstanding.
C5_Witness ==
    /\ ev.op = "handleReset"
    /\ variant = "extended"
    /\ status = IDLE
    /\ curlInput # <<>>
    /\ pending # <<>>

\* C6: analyze on a text that is empty or whitespace only changes none of
\* status, known fields, selection, result, error and text, and issues no
\* call.
C6_BlankAnalyzeStep ==
    (ev'.op = "handleAnalyze" /\ trim(curlInput) = <<>>) =>
        UNCHANGED <<status, availableFields, volatileInputs, selectedFields,
                    result, error, curlInput, pending>>

C6_BlankAnalyze == [][C6_BlankAnalyzeStep]_vars

\* C6 witness: analyze has run on a whitespace-only text (which the enabled
\* analyze button lets through) and issued no call.
C6_Witness ==
    /\ ev.op = "handleAnalyze"
    /\ curlInput # <<>>
    /\ trim(curlInput) = <<>>
    /\ ev.call = Null

\* The message a failed call leaves: the underlying one, or the fallback.
ExpectedMessage(response, fallback) ==
    IF response.rejected
    THEN IF response.message # "" THEN response.message ELSE fallback
    ELSE IF response.text = MissingFieldsText THEN SliceOfUndefined
    ELSE JSONparse(response.text).message

\* C7 as stated: no exception escapes the controller, and every failed
\* analyze or generate exchange ends in status error with its message (the
\* underlying one if present, otherwise the fallback) stored.
C7_NothingEscapes ==
    /\ ~uncaught
    /\ (ev.op = "analyzeSettled" /\ Fails(SettledResponse))
          => /\ status = ERROR
             /\ error = Some(ExpectedMessage(SettledResponse, AnalyzeFallback))
    /\ (ev.op = "generateSettled" /\ Fails(SettledResponse))
          => /\ status = ERROR
             /\ error = Some(ExpectedMessage(SettledResponse, GenerateFallback))

\* C8 as stated: the selection is a subset of the known field names in every
\* state.
C8_SelectionKnown == Members(selectedFields) \subseteq Names(availableFields)

\* C9 as stated: the stored result and the controls that depend on it are
\* shown only while status is success; reset and the start of an analyze
\* empty the stored result; an empty stored result only becomes non-empty
\* by a generate call settling successfully.
C9_ResultStep ==
    /\ (CopyButtonVisible' \/ ResultPanelVisible') => status' = SUCCESS
    /\ ev'.op = "handleReset" => result' = Null
    /\ (ev'.op = "handleAnalyze" /\ trim(curlInput) # <<>>) => result' = Null
    /\ (result = Null /\ result' # Null)
          => (ev'.op = "generateSettled" /\ status' = SUCCESS)

C9_ResultOnlyOnSuccess == [][C9_ResultStep]_vars

\* C10: a toggle removes one selected name, or adds one unselected name,
\* and leaves every other member in place; toggling any name twice gives
\* back the membership it started from.
C10_ToggleStep ==
    /\ ev'.op = "toggleField" =>
          \E f \in Members(availableFields) :
             IF f \in Members(selectedFields)
             THEN Members(selectedFields') = Members(selectedFields) \ {f}
             ELSE Members(selectedFields') = Members(selectedFields) \cup {f}
    /\ \A f \in Members(availableFields) \cup {trim(customField)} :
          /\ f \in Members(selectedFields)
                => Members(Toggled(selectedFields, f))
                      = Members(selectedFields) \ {f}
          /\ f \notin Members(selectedFields)
                => Members(Toggled(selectedFields, f))
                      = Members(selectedFields) \cup {f}
          /\ Members(Toggled(Toggled(selectedFields, f), f))
                = Members(selectedFields)

C10_Toggle == [][C10_ToggleStep]_vars

\* C10 witness: a toggle has emptied the selection of a non-empty field
\* list, so a selected name has been removed.
C10_Witness ==
    /\ ev.op = "toggleField"
    /\ availableFields # <<>>
    /\ selectedFields = <<>>

\* C11: a toggle leaves status, the known fields, the volatile inputs, the
\* stored result, the error value and the cURL text as they were, issues no
\* call and leaves the outstanding calls as they were; the field list a
\* generate call carries is the selection at the step that issued it.
C11_ToggleFrameStep ==
    /\ ev'.op = "toggleField" =>
          /\ UNCHANGED <<status, availableFields, volatileInputs, result,
                         error, curlInput, pending>>
          /\ ev'.call = Null
    /\ ev'.op = "handleGenerate" =>
          /\ ev'.call # Null
          /\ ev'.call[1].kind = "generate"
          /\ ev'.call[1].selectedFields = selectedFields

C11_ToggleFrame == [][C11_ToggleFrameStep]_vars

\* C11 witness: a chip has been toggled while a generate call was in flight.
C11_Witness ==
    /\ ev.op = "toggleField"
    /\ status = GENERATING
    /\ \E i \in 1..Len(pending) : pending[i].kind = "generate"

\* C12 as stated: the known field list is non-empty only after an analyze
\* call has completed successfully since the start or the last reset.
C12_FieldsOnlyAfterAnalyze == availableFields # <<>> => analyzedSinceReset

\* C13 as stated: the settlement of an analyze or generate call that fails
\* leaves the known fields, the volatile inputs, the selection and the
\* stored result as they were.
C13_FailureStep ==
    (ev'.op \in {"analyzeSettled", "generateSettled"} /\ Fails(ev'.response[1]))
        => UNCHANGED <<availableFields, volatileInputs, selectedFields, result>>

C13_FailureFrame == [][C13_FailureStep]_vars

\* The names of a list in order, with ", " between adjacent names.
RECURSIVE NamesJoined(_)
NamesJoined(list) ==
    IF Len(list) = 1 THEN list[1]
    ELSE list[1] \o <<",", " ">> \o NamesJoined(Tail(list))

\* Text t occurs in prompt p.
Embeds(p, t) == \E i \in 1..(Len(p) - Len(t) + 1) : SubSeq(p, i, i + Len(t) - 1) = t

\* The prompt of the request that has gone out, and the arguments of the call.
SentPrompt == pending[1].prompt

SentCall == ev.call[1]

\* C14 as stated: the cURL text is in the prompt verbatim, and the sentinel
\* is in the prompt exactly when the selected-field list is empty.
C14_Original ==
    ev.op = "convertCurlToPython" =>
        /\ Embeds(SentPrompt, SentCall.curlCommand)
        /\ Embeds(SentPrompt, Sentinel(variant)) <=> SentCall.selectedFields = <<>>

\* C14 amended: the prompt is the template with the cURL text verbatim in
\* its first slot and, in its field slot, the selected names in the order
\* given joined by ", " when the list is non-empty and the sentinel of the
\* service when it is empty; a non-empty list whose names spell the
\* sentinel therefore puts the sentinel text in the prompt as well.
C14_Prompt ==
    ev.op = "convertCurlToPython" =>
        /\ SentPrompt =
              PromptHead(variant) \o SentCall.curlCommand \o PromptMiddle(variant)
                \o (IF SentCall.selectedFields = <<>>
                    THEN Sentinel(variant)
                    ELSE NamesJoined(SentCall.selectedFields))
                \o PromptTail(variant, SentCall.volatileInputs)
        /\ Embeds(SentPrompt, SentCall.curlCommand)
        /\ SentCall.selectedFields = <<>> => Embeds(SentPrompt, Sentinel(variant))
        /\ (SentCall.selectedFields # <<>> /\ Embeds(SentPrompt, Sentinel(variant)))
              => \E i \in 1..Len(SentCall.selectedFields) :
                    SentCall.selectedFields[i] = Sentinel(variant)

\* C14 witness: a request has gone out for three selected names, none of
\* them the sentinel.
C14_Witness ==
    /\ ev.op = "convertCurlToPython"
    /\ Len(SentCall.selectedFields) = 3
    /\ SentCall.selectedFields[1] # SentCall.selectedFields[2]
    /\ ~Embeds(SentPrompt, Sentinel(variant))

\* C15: an analyze action on a non-blank text and a generate action each
\* put exactly one call in flight; no other step issues a call, and the
\* settlement of a call, failed or not, takes that one call out of flight
\* and issues none.
C15_RequestStep ==
    /\ (ev'.op = "handleAnalyze" /\ trim(curlInput) # <<>>) =>
          /\ Len(pending') = Len(pending) + 1
          /\ SubSeq(pending', 1, Len(pending)) = pending
          /\ pending'[Len(pending')].kind = "analyze"
          /\ ev'.call # Null
    /\ ev'.op = "handleGenerate" =>
          /\ Len(pending') = Len(pending) + 1
          /\ SubSeq(pending', 1, Len(pending)) = pending
          /\ pending'[Len(pending')].kind = "generate"
          /\ ev'.call # Null
    /\ ev'.op \in {"analyzeSettled", "generateSettled"} =>
          /\ ev'.call = Null
          /\ \E i \in 1..Len(pending) : pending' = Without(pending, i)
    /\ (ev'.op \notin {"handleAnalyze", "handleGenerate",
                        "analyzeSettled", "generateSettled"}) =>
          /\ ev'.call = Null
          /\ pending' = pending

C15_OneRequest == [][C15_RequestStep]_vars

\* C15 witness: the only call in flight has failed, and none is in flight
\* afterwards.
C15_Witness ==
    /\ ev.op \in {"analyzeSettled", "generateSettled"}
    /\ Fails(SettledResponse)
    /\ status = ERROR
    /\ pending = <<>>

\* C16 as stated: the settlement of a call right after a reset (a call that
\* was issued before it) leaves status idle and the known fields, the
\* selection, the stored result and the error value empty.
C16_AfterResetStep ==
    (ev.op = "handleReset" /\ ev'.op \in {"analyzeSettled", "generateSettled"})
        => /\ status' = IDLE
           /\ availableFields' = <<>>
           /\ selectedFields' = <<>>
           /\ result' = Null
           /\ error' = Null

C16_StaleSettlement == [][C16_AfterResetStep]_vars

\* C17 as stated: the error value is non-empty only while status is error.
C17_ErrorOnlyInError == error # Null => status = ERROR

\* C18 as stated: in the basic variant the cURL text a generate call
\* carries is the text carried by the analyze call that completed
\* successfully last.
C18_GenerateSameText ==
    (variant = "basic" /\ ev.op = "handleGenerate")
        => lastAnalyzed = Some(ev.call[1].curlCommand)

\* How many times a name occurs in a list.
Occurrences(list, name) == Cardinality({i \in 1..Len(list) : list[i] = name})

\* C19 as stated: in the basic variant, submitting a non-blank custom name
\* leaves its trimmed form selected and exactly once in the known field
\* list, whatever the two were before; submitting a blank name changes
\* neither.
C19_AddCustomStep ==
    (variant = "basic" /\ ev'.op = "addCustomField") =>
        IF trim(customField) # <<>>
        THEN /\ trim(customField) \in Members(selectedFields')
             /\ Occurrences(availableFields', trim(customField)) = 1
        ELSE UNCHANGED <<availableFields, selectedFields>>

C19_AddCustom == [][C19_AddCustomStep]_vars

====
